---- MODULE Spec2Model ----
(***************************************************************************)
(* Reminder scheduling of the tasks-and-events bot (src/main.py).          *)
(*                                                                         *)
(* The state is the tasks table (src/database.py), the APScheduler job     *)
(* store, the executor that runs schedule_reminders_and_updates, the       *)
(* position of every running pass of that function, the wall clock and     *)
(* BOT_READY.  A pass runs in a thread of its own (the main thread at      *)
(* startup, one of the two executor threads afterwards): every call it     *)
(* makes on the scheduler is one atomic step (the scheduler takes its      *)
(* job-store lock per call), and steps of different threads interleave.    *)
(*                                                                         *)
(* Time is in minutes after the start of the process.  The clock visits    *)
(* the instants InstantAt(0), InstantAt(1), ... and has two positions at   *)
(* each: exactly at the instant, and just after it.  A date job runs once  *)
(* the clock is past its run date, so datetime.now() read after a job ran  *)
(* is later than that job's run date.                                      *)
(***************************************************************************)
EXTENDS Integers, Sequences, FiniteSets, TLC

\* ---------------------------------------------------------------- bounds
MaxItems == 2
MaxOps == 2
MaxRev == 1
LastInstant == 2

\* ------------------------------------------------------ program constants
ReminderLeadMinutes == 30
LookaheadDays == 30
ExecutorWorkers == 2
\* datetime.min on the model's time axis: no datetime is earlier
DatetimeMin == -1000000

\* the daily_update cron trigger: hour=8, minute=0
DigestHour == 8
DigestMinute == 0

MinutesPerDay == 24 * 60
Lead == ReminderLeadMinutes
Window == LookaheadDays * MinutesPerDay

\* ------------------------------------------------------------------ time
\* The instants the clock visits: the start, the first reminder time, and
\* reminder times from 30 days after it on.
InstantAt(k) ==
    IF k = 0 THEN 0
    ELSE IF k = 1 THEN Lead
    ELSE Window + (k - 1) * Lead

\* The process starts half an hour before the hour of the daily update, so
\* that the later instants fall on it.
StartOfDay == DigestHour * 60 + DigestMinute - Lead

\* the cron trigger matches the time t
IsDigestTime(t) == (StartOfDay + t) % MinutesPerDay = DigestHour * 60 + DigestMinute

\* Clock positions: 0 is the start; 2k - 1 is exactly instant k, 2k just after it.
LastClock == 2 * LastInstant

\* datetime.now() at clock position c: the instant, and whether it is past
Now(c) == [t |-> InstantAt((c + 1) \div 2), late |-> c > 0 /\ c % 2 = 0]

\* ------------------------------------------------------------- due dates
\* A due_date column value: a string datetime.fromisoformat accepts (ok,
\* with the naive time t it denotes) or one it rejects.
IsoDue(t) == [ok |-> TRUE, t |-> t]
GarbageDue == [ok |-> FALSE, t |-> 0]

DueSoon == IsoDue(InstantAt(1) + Lead)
DueFar == IsoDue(InstantAt(2) + Lead)
DueMin == IsoDue(DatetimeMin + 10)

\* what the bot commands' strptime formats can produce
ParsedDues == {DueSoon, DueFar, DueMin}
\* what the web form and the JSON API store: any non-empty string
AnyDues == ParsedDues \cup {GarbageDue}

Types == {"task", "event"}

\* ------------------------------------------------------------------ jobs
\* job.id: "reminder_<item id>_<int(run_date.timestamp())>" or "daily_update"
JobId(j) == <<j.kind, j.item, j.run>>

\* job.id.startswith('reminder_')
IsReminder(j) == j.kind = "reminder"

Reminders(J) == {j \in J : IsReminder(j)}

JobIds(J) == {JobId(j) : j \in J}

\* the message text: type, name, due time, mention, priority, notes
Render(i) == [type |-> i.type, due |-> i.due, rev |-> i.rev]

NoMsg == [type |-> "", due |-> GarbageDue, rev |-> 0]

DailyJob == [kind |-> "daily_update", item |-> 0, run |-> 0, msg |-> NoMsg]

\* reminder_time = due - timedelta(minutes=30)
ReminderTime(i) == i.due.t - Lead

ReminderJob(i) ==
    [kind |-> "reminder", item |-> i.id, run |-> ReminderTime(i), msg |-> Render(i)]

\* due - timedelta(minutes=30) raises OverflowError below datetime.min
Overflows(i) == ReminderTime(i) < DatetimeMin

\* now <= reminder_time <= now + timedelta(days=30)
InWindow(now, rt) ==
    /\ now.t < rt \/ (now.t = rt /\ ~now.late)
    /\ rt <= now.t + Window

\* the item passes the status and date checks of the loop body
Considered(i) == i.status = "pending" /\ i.due.ok

\* the loop body raises on this item
Raises(i) == Considered(i) /\ Overflows(i)

\* the loop body reaches scheduler.add_job on this item
Armable(i, now) ==
    Considered(i) /\ ~Overflows(i) /\ InWindow(now, ReminderTime(i))

\* ------------------------------------------------------------- the store
\* ORDER BY due_date ASC compares the strings: ISO strings in time order, a
\* string that is no date (letters) after them; equal keys in rowid order.
GarbageKey == InstantAt(LastInstant) + Window

DueKey(d) == IF d.ok THEN d.t ELSE GarbageKey

ItemBefore(a, b) ==
    DueKey(a.due) < DueKey(b.due) \/ (DueKey(a.due) = DueKey(b.due) /\ a.id < b.id)

RECURSIVE SortItems(_)
SortItems(S) ==
    IF S = {} THEN <<>>
    ELSE LET m == CHOOSE x \in S : \A y \in S \ {x} : ItemBefore(x, y)
         IN <<m>> \o SortItems(S \ {m})

\* scheduler.get_jobs(): the jobs by next run time, then by id
JobBefore(a, b) == a.run < b.run \/ (a.run = b.run /\ a.item < b.item)

RECURSIVE SortJobs(_)
SortJobs(J) ==
    IF J = {} THEN <<>>
    ELSE LET m == CHOOSE x \in J : \A y \in J \ {x} : JobBefore(x, y)
         IN <<m>> \o SortJobs(J \ {m})

\* ----------------------------------------------------------------- state
VARIABLES
    db,        \* the tasks table: a set of item rows
    nextId,    \* the next AUTOINCREMENT id
    clock,     \* the clock position
    botReady,  \* BOT_READY
    running,   \* scheduler.running
    jobs,      \* the scheduler's job store
    queued,    \* calls submitted to the executor and not yet started
    pass,      \* per thread, its running pass of schedule_reminders_and_updates
    last,      \* the pass that ended last, when passes run alone: what it
               \* read and what it left
    newest,    \* the items and the time read by the pass that started last
    log,       \* the reminder jobs that ran, with what notify_discord did
    updates,   \* the runs of the daily_update job, with what send_daily_update did
    ops,       \* number of commands and requests handled
    call       \* the last call of a function that is run on its own
               \* (generate_recurring_instances, send_daily_update): its
               \* arguments and what it returned

vars == <<db, nextId, clock, botReady, running, jobs, queued, pass, last, newest, log, updates, ops,
          call>>

Main == 0
Workers == 1 .. ExecutorWorkers
Threads == {Main} \cup Workers

IdlePass ==
    [pc |-> "idle", items |-> <<>>, now |-> Now(0), existing |-> <<>>, ri |-> 1, ai |-> 1,
     cancelled |-> 0, armed |-> 0, alone |-> TRUE]

NoPred == [valid |-> FALSE, failed |-> FALSE, items |-> <<>>, now |-> Now(0), live |-> {}]

NoSummary ==
    [valid |-> FALSE, failed |-> FALSE, items |-> <<>>, now |-> Now(0), existing |-> {},
     live |-> {}, cancelled |-> 0, armed |-> 0, pred |-> NoPred]

\* no call of generate_recurring_instances yet
NoCall == [valid |-> FALSE]

\* a row of the tasks table
Row(id, type, due) ==
    [id |-> id, type |-> type, due |-> due, status |-> "pending", rev |-> 0, fresh |-> FALSE]

\* The table survives restarts: the process starts on a table that holds one
\* pending item, due soon or at a date whose reminder time is not representable.
Init ==
    /\ db \in {{Row(1, "event", DueSoon)}, {Row(1, "event", DueMin)}}
    /\ nextId = 2
    /\ clock = 0
    /\ botReady = FALSE
    /\ running = FALSE
    /\ jobs = {}
    /\ queued = 0
    /\ pass = [w \in Threads |-> IdlePass]
    /\ last = NoSummary
    /\ newest = [items |-> <<>>, now |-> Now(0)]
    /\ log = {}
    /\ updates = {}
    /\ ops = 0
    /\ call = NoCall

\* main() got past schedule_reminders_and_updates (which started the
\* scheduler): Flask and the bot run
Started == running

InProgress(p) == p.pc # "idle"

\* ------------------------------------------- schedule_reminders_and_updates
\* a removal loop that spares the first reminder job it found
SpareFirst(existing) ==
    IF SelectSeq(existing, IsReminder) = <<>> THEN <<>>
    ELSE Tail(SelectSeq(existing, IsReminder))

\* the reminder jobs the removal loop calls remove_job on, in order
CancelTargets(existing) == SelectSeq(existing, IsReminder)

\* the first item from position `from` on at which the loop body arms or raises
ArmFrom(items, now, from) ==
    LET K == {k \in from .. Len(items) : Armable(items[k], now) \/ Raises(items[k])}
    IN IF K = {} THEN 0 ELSE CHOOSE k \in K : \A m \in K : k <= m

\* The loop over the items runs, from position `from`, up to its next call of
\* add_job ("arm"), to the exception it raises ("failed"), or to its end, after
\* which the pass (re)places the daily_update job and returns ("done").
EnterArm(p, from) ==
    LET k == ArmFrom(p.items, p.now, from)
    IN IF k = 0 THEN [p EXCEPT !.pc = "done", !.ai = Len(p.items) + 1]
       ELSE IF Raises(p.items[k]) THEN [p EXCEPT !.pc = "failed", !.ai = k]
       ELSE [p EXCEPT !.pc = "arm", !.ai = k]

\* scheduler.add_job(daily_update_job, "cron", hour=8, minute=0,
\*                   id="daily_update", replace_existing=True)
WithDailyUpdate(J) == {j \in J : JobId(j) # JobId(DailyJob)} \cup {DailyJob}

\* the job store when the pass is at p: a pass that returns has placed the
\* daily_update job, one that raised has not
Placed(p, J) == IF p.pc = "done" THEN WithDailyUpdate(J) ELSE J

\* items = database.fetch_items(); now = datetime.now()
ReadItems(items, now) ==
    [IdlePass EXCEPT !.pc = "read", !.items = items, !.now = now]

\* a pass that goes to its item loop without removing the jobs it found
ArmFirst(p, J) ==
    LET r == EnterArm([p EXCEPT !.existing = SortJobs(J)], 1)
    IN [p |-> r, J |-> Placed(r, J), mutated |-> FALSE]

\* existing_jobs = scheduler.get_jobs()
AfterGetJobs(p, J) ==
    LET q == [p EXCEPT !.existing = SortJobs(J)]
        r == IF CancelTargets(q.existing) = <<>> THEN EnterArm(q, 1)
             ELSE [q EXCEPT !.pc = "cancel"]
    IN [p |-> r, J |-> Placed(r, J), mutated |-> FALSE]

\* a removal loop that leaves every job it visits in the store
LeaveJob(p, J) ==
    LET q == [p EXCEPT !.ri = p.ri + 1]
        r == IF q.ri > Len(CancelTargets(p.existing)) THEN EnterArm(q, 1) ELSE q
    IN [p |-> r, J |-> Placed(r, J), mutated |-> FALSE]

\* scheduler.remove_job(job.id): JobLookupError when no job has that id
AfterRemoveJob(p, J) ==
    LET targets == CancelTargets(p.existing)
        id == JobId(targets[p.ri])
        q == [p EXCEPT !.ri = p.ri + 1, !.cancelled = p.cancelled + 1]
        r == IF q.ri > Len(targets) THEN EnterArm(q, 1) ELSE q
    IN IF id \in JobIds(J)
       THEN [p |-> r, J |-> Placed(r, {j \in J : JobId(j) # id}), mutated |-> TRUE]
       ELSE [p |-> [p EXCEPT !.pc = "failed"], J |-> J, mutated |-> FALSE]

\* scheduler.add_job(..., "date", run_date=reminder_time, id=job_id):
\* ConflictingIdError when a job has that id
AfterAddJob(p, J) ==
    LET job == ReminderJob(p.items[p.ai])
        r == EnterArm([p EXCEPT !.armed = p.armed + 1], p.ai + 1)
    IN IF JobId(job) \notin JobIds(J)
       THEN [p |-> r, J |-> Placed(r, J \cup {job}), mutated |-> TRUE]
       ELSE [p |-> [p EXCEPT !.pc = "failed"], J |-> J, mutated |-> FALSE]

\* the next call of the pass on the scheduler
AfterCall(p, J) ==
    IF p.pc = "read" THEN AfterGetJobs(p, J)
    ELSE IF p.pc = "cancel" THEN AfterRemoveJob(p, J)
    ELSE AfterAddJob(p, J)

Ended(p) == p.pc \in {"done", "failed"}

\* the pass run to its end with no other thread in between
RECURSIVE RunPass(_, _)
RunPass(p, J) ==
    IF Ended(p) THEN [p |-> p, J |-> J]
    ELSE LET a == AfterCall(p, J) IN RunPass(a.p, a.J)

\* another thread changed the reminder jobs under this pass
Disturbed(p) == IF p.pc = "idle" THEN p ELSE [p EXCEPT !.alone = FALSE]

\* Thread w makes the next call of its pass.  When the pass returns the
\* scheduler runs; an executor thread is then free again, while an exception
\* in the main thread ends the process.
Call(w) ==
    LET a == AfterCall(pass[w], jobs)
    IN /\ jobs' = a.J
       /\ running' = (running \/ a.p.pc = "done")
       /\ pass' = [v \in Threads |->
                     IF v = w
                     THEN (IF Ended(a.p) /\ ~(w = Main /\ a.p.pc = "failed")
                           THEN IdlePass ELSE a.p)
                     ELSE IF a.mutated THEN Disturbed(pass[v]) ELSE pass[v]]
       /\ UNCHANGED <<db, nextId, clock, botReady, queued, last, newest, log, updates, ops, call>>

Begin(w) ==
    /\ pass' = [pass EXCEPT ![w] = ReadItems(SortItems(db), Now(clock))]
    /\ newest' = [items |-> SortItems(db), now |-> Now(clock)]

\* main() calls schedule_reminders_and_updates(ASYNC_LOOP) before it starts
\* Flask and the bot
StartupPass ==
    /\ ~running
    /\ pass[Main].pc = "idle"
    /\ Begin(Main)
    /\ UNCHANGED <<db, nextId, clock, botReady, running, jobs, queued, last, log, updates, ops, call>>

\* an executor thread takes a submitted call
WorkerPass(w) ==
    /\ Started
    /\ queued > 0
    /\ ~InProgress(pass[w])
    /\ \A v \in Workers : v < w => InProgress(pass[v])
    /\ queued' = queued - 1
    /\ Begin(w)
    /\ UNCHANGED <<db, nextId, clock, botReady, running, jobs, last, log, updates, ops, call>>

GetJobs(w) == pass[w].pc = "read" /\ Call(w)

RemoveJob(w) == pass[w].pc = "cancel" /\ Call(w)

AddJob(w) == pass[w].pc = "arm" /\ Call(w)

\* ---------------------------------------------------- a pass run alone
\* what an ended pass read and what it left, and the same of the pass before
Summary(p, J) ==
    [valid |-> TRUE, failed |-> p.pc = "failed", items |-> p.items, now |-> p.now,
     existing |-> Reminders({p.existing[k] : k \in 1 .. Len(p.existing)}),
     live |-> Reminders(J), cancelled |-> p.cancelled, armed |-> p.armed,
     pred |-> [valid |-> last.valid, failed |-> last.failed, items |-> last.items,
               now |-> last.now, live |-> last.live]]

\* a whole pass with no other thread and no job run in between
Alone(w) ==
    LET a == RunPass(ReadItems(SortItems(db), Now(clock)), jobs)
    IN /\ jobs' = a.J
       /\ running' = (running \/ a.p.pc = "done")
       /\ pass' = [pass EXCEPT ![w] = IF w = Main /\ a.p.pc = "failed" THEN a.p ELSE IdlePass]
       /\ last' = Summary(a.p, a.J)
       /\ newest' = [items |-> SortItems(db), now |-> Now(clock)]

StartupAlone ==
    /\ ~running
    /\ pass[Main].pc = "idle"
    /\ Alone(Main)
    /\ UNCHANGED <<db, nextId, clock, botReady, queued, log, updates, ops, call>>

WorkerAlone ==
    /\ Started
    /\ queued > 0
    /\ queued' = queued - 1
    /\ Alone(1)
    /\ UNCHANGED <<db, nextId, clock, botReady, log, updates, ops, call>>

\* -------------------------------------------------- commands and requests
Item(id) == CHOOSE i \in db : i.id = id

Exists(id) == \E i \in db : i.id = id

\* executor.submit(schedule_reminders_and_updates, ASYNC_LOOP)
Submit == queued' = queued + 1

\* database.add_item_db: a new pending row under the next id.  fresh: the due
\* date is more than 30 days after created_at and the row was never updated.
Insert(type, due) ==
    /\ nextId <= MaxItems
    /\ db' = db \cup {[Row(nextId, type, due) EXCEPT
                         !.fresh = due.ok /\ due.t > Now(clock).t + Window]}
    /\ nextId' = nextId + 1

\* database.update_item_status / update_item_db on an existing row
Update(id, field, value) ==
    db' = (db \ {Item(id)}) \cup
          {[[Item(id) EXCEPT ![field] = value] EXCEPT !.fresh = FALSE]}

Handled ==
    /\ Started
    /\ ops < MaxOps
    /\ ops' = ops + 1

\* !addevent <name> | <due_date> | ...
addevent(due) ==
    /\ Handled
    /\ botReady
    /\ Insert("event", due)
    /\ Submit
    /\ UNCHANGED <<clock, botReady, running, jobs, pass, last, newest, log, updates, call>>

\* !addtask <name> | <due_date> | ...
addtask(due) ==
    /\ Handled
    /\ botReady
    /\ Insert("task", due)
    /\ Submit
    /\ UNCHANGED <<clock, botReady, running, jobs, pass, last, newest, log, updates, call>>

\* POST /add_item/<item_type>: reschedules only if ASYNC_LOOP and BOT_READY
add_item_page(type, due) ==
    /\ Handled
    /\ Insert(type, due)
    /\ IF botReady THEN Submit ELSE UNCHANGED queued
    /\ UNCHANGED <<clock, botReady, running, jobs, pass, last, newest, log, updates, call>>

\* POST /api/events
api_events(type, due) ==
    /\ Handled
    /\ Insert(type, due)
    /\ Submit
    /\ UNCHANGED <<clock, botReady, running, jobs, pass, last, newest, log, updates, call>>

\* PUT /api/events/<id> with one of the allowed fields
api_event_put(id, field, value) ==
    /\ Handled
    /\ IF Exists(id) THEN Update(id, field, value) ELSE UNCHANGED db
    /\ Submit
    /\ UNCHANGED <<nextId, clock, botReady, running, jobs, pass, last, newest, log, updates, call>>

\* DELETE /api/events/<id>
api_event_delete(id) ==
    /\ Handled
    /\ Exists(id)
    /\ db' = db \ {Item(id)}
    /\ UNCHANGED <<nextId, clock, botReady, running, jobs, queued, pass, last, newest, log, updates, call>>

\* !completetask <task_id>
completetask(id) ==
    /\ Handled
    /\ botReady
    /\ Exists(id)
    /\ Item(id).type = "task"
    /\ Item(id).status # "completed"
    /\ Update(id, "status", "completed")
    /\ UNCHANGED <<nextId, clock, botReady, running, jobs, queued, pass, last, newest, log, updates, call>>

\* !completeevent <event_id>
completeevent(id) ==
    /\ Handled
    /\ botReady
    /\ Exists(id)
    /\ Item(id).type = "event"
    /\ Item(id).status # "completed"
    /\ Update(id, "status", "completed")
    /\ UNCHANGED <<nextId, clock, botReady, running, jobs, queued, pass, last, newest, log, updates, call>>

\* GET /complete/<item_id>
complete_item(id) ==
    /\ Handled
    /\ Exists(id)
    /\ Update(id, "status", "completed")
    /\ UNCHANGED <<nextId, clock, botReady, running, jobs, queued, pass, last, newest, log, updates, call>>

\* on_ready
on_ready ==
    /\ Started
    /\ ~botReady
    /\ botReady' = TRUE
    /\ UNCHANGED <<db, nextId, clock, running, jobs, queued, pass, last, newest, log, updates, ops, call>>

\* ------------------------------------------------------- clock, scheduler
\* a reminder job whose run date the clock has reached
Due(j) == IsReminder(j) /\ j.run <= Now(clock).t

\* the daily_update job is in the store and its trigger matched the clock's
\* instant, at which it has not run yet
DigestDue ==
    /\ DailyJob \in jobs
    /\ IsDigestTime(Now(clock).t)
    /\ \A u \in updates : u.t # Now(clock).t

\* Time passes.  The scheduler wakes at every run date: the clock leaves an
\* instant only when no job of the store is due.  The executor starts a
\* submitted call, and a pass ends, in far less than the time between two
\* instants: the clock reaches the next instant only when no call is queued
\* and no pass is running.
Tick ==
    /\ Started
    /\ clock < LastClock
    /\ Now(clock).late => \A j \in jobs : ~Due(j)
    /\ Now(clock).late => ~DigestDue
    /\ ~Now(clock + 1).late => queued = 0 /\ \A w \in Threads : ~InProgress(pass[w])
    /\ clock' = clock + 1
    /\ UNCHANGED <<db, nextId, botReady, running, jobs, queued, pass, last, newest, log, updates, ops, call>>

\* a pass past its read of the job store sees a job run
Fired(p) == IF p.pc \in {"idle", "read"} THEN p ELSE [p EXCEPT !.alone = FALSE]

Pending(id) == \E i \in db : i.id = id /\ i.status = "pending"

\* the job ran: job_function called notify_discord(msg, mention_everyone=True),
\* and what notify_discord did with the message
Entry(j, out) ==
    [id |-> JobId(j), msg |-> j.msg, everyone |-> TRUE,
     n |-> 1 + Cardinality({e \in log : e.id = JobId(j)}),
     pend |-> Pending(j.item), out |-> out]

\* a scheduler that keeps a job whose message was not sent, to run it again
FireAgain(j) ==
    /\ running
    /\ Now(clock).late
    /\ j \in jobs
    /\ IsReminder(j) /\ j.run <= Now(clock).t
    /\ Cardinality({e \in log : e.id = JobId(j)}) < 2
    /\ \E out \in (IF botReady THEN {"sent", "failed"} ELSE {"skipped"}) :
          /\ log' = log \cup {Entry(j, out)}
          /\ jobs' = IF out = "sent" THEN jobs \ {j} ELSE jobs
    /\ pass' = [v \in Threads |-> IF pass[v].pc \in {"idle", "read"} THEN pass[v]
                                  ELSE [pass[v] EXCEPT !.alone = FALSE]]
    /\ UNCHANGED <<db, nextId, clock, botReady, running, queued, last, newest, updates, ops, call>>

\* The scheduler processes a due date job and removes it: it runs
\* job_function, which hands the message to notify_discord(msg,
\* mention_everyone=True).  Nothing is sent while BOT_READY is false, else
\* channel.send succeeds or fails.
Fire(j) ==
    /\ running
    /\ Now(clock).late
    /\ j \in jobs
    /\ Due(j)
    /\ jobs' = jobs \ {j}
    /\ pass' = [v \in Threads |-> Fired(pass[v])]
    /\ \E out \in (IF botReady THEN {"sent", "failed"} ELSE {"skipped"}) :
          log' = log \cup {Entry(j, out)}
    /\ UNCHANGED <<db, nextId, clock, botReady, running, queued, last, newest, updates, ops, call>>

\* a daily_update run whose exception stops the scheduler
DigestStops ==
    /\ running
    /\ Now(clock).late
    /\ DigestDue
    /\ \E out \in (IF botReady THEN {"sent", "failed"} ELSE {"skipped"}) :
          /\ updates' = updates \cup {[t |-> Now(clock).t, out |-> out]}
          /\ running' = (out # "failed")
    /\ UNCHANGED <<db, nextId, clock, botReady, jobs, queued, pass, last, newest, log, ops, call>>

\* The scheduler runs the daily_update job, which stays in the store for the
\* next day: daily_update_job hands send_daily_update to the event loop, which
\* returns at once while BOT_READY is false, else sends the digest or catches
\* the exception of building or sending it.
daily_update_job ==
    /\ running
    /\ Now(clock).late
    /\ DigestDue
    /\ \E out \in (IF botReady THEN {"sent", "failed"} ELSE {"skipped"}) :
          updates' = updates \cup {[t |-> Now(clock).t, out |-> out]}
    /\ UNCHANGED <<db, nextId, clock, botReady, running, jobs, queued, pass, last, newest, log, ops, call>>

\* ------------------------------------------------------------------- spec
Ids == 1 .. MaxItems

Requests ==
    \/ \E due \in ParsedDues : addevent(due) \/ addtask(due)
    \/ \E type \in Types, due \in AnyDues : add_item_page(type, due) \/ api_events(type, due)
    \/ \E id \in Ids :
          \/ \E due \in AnyDues : api_event_put(id, "due", due)
          \/ \E rev \in 0 .. MaxRev : api_event_put(id, "rev", rev)
          \/ \E st \in {"pending", "completed"} : api_event_put(id, "status", st)
          \/ api_event_delete(id)
          \/ completetask(id)
          \/ completeevent(id)
          \/ complete_item(id)

Next ==
    \/ StartupPass
    \/ \E w \in Workers : WorkerPass(w)
    \/ \E w \in Threads : GetJobs(w) \/ RemoveJob(w) \/ AddJob(w)
    \/ Requests
    \/ on_ready
    \/ Tick
    \/ \E j \in jobs : Fire(j)
    \/ daily_update_job

\* The program: passes of the main thread and of the two executor threads
\* interleave with each other, with the requests and with the scheduler.
Spec == Init /\ [][Next]_vars

NextAlone ==
    \/ StartupAlone
    \/ WorkerAlone
    \/ Requests
    \/ on_ready
    \/ Tick
    \/ \E j \in jobs : Fire(j)
    \/ daily_update_job

\* The behaviours of the program in which every pass runs alone: from its read
\* of the items to its end no other pass runs and no job runs.
SpecAlone == Init /\ [][NextAlone]_vars

\* ------------------------------------------- generate_recurring_instances
\* a limit that lets one more iteration through
LooserLimit == 100 + 1

\* max_instances = 100
MaxInstances == 100

\* a naive datetime: the calendar date and the minute of the day
Date(y, m, d, hm) == [y |-> y, m |-> m, d |-> d, hm |-> hm]

IsLeap(y) == (y % 4 = 0 /\ y % 100 # 0) \/ y % 400 = 0

DaysInMonth(y, m) ==
    IF m = 2 THEN (IF IsLeap(y) THEN 29 ELSE 28)
    ELSE IF m \in {4, 6, 9, 11} THEN 30
    ELSE 31

\* the order of datetimes
DateKey(a) == ((a.y * 12 + (a.m - 1)) * 31 + (a.d - 1)) * MinutesPerDay + a.hm

DateLeq(a, b) == DateKey(a) <= DateKey(b)

\* a + timedelta(days=1)
NextDay(a) ==
    IF a.d < DaysInMonth(a.y, a.m) THEN [a EXCEPT !.d = a.d + 1]
    ELSE IF a.m < 12 THEN [a EXCEPT !.m = a.m + 1, !.d = 1]
    ELSE [a EXCEPT !.y = a.y + 1, !.m = 1, !.d = 1]

\* a + timedelta(days=n)
RECURSIVE AddDays(_, _)
AddDays(a, n) == IF n = 0 THEN a ELSE AddDays(NextDay(a), n - 1)

\* a month taken as thirty days
ThirtyDays(a) == AddDays(a, 30)

\* a + relativedelta(months=1): the next month, the day no later than that
\* month's last
AddMonth(a) ==
    LET y == IF a.m = 12 THEN a.y + 1 ELSE a.y
        m == IF a.m = 12 THEN 1 ELSE a.m + 1
    IN [a EXCEPT !.y = y, !.m = m,
                 !.d = IF a.d > DaysInMonth(y, m) THEN DaysInMonth(y, m) ELSE a.d]

\* the repeat intervals the loop advances by
Repeats == {"daily", "weekly", "monthly"}

\* the next occurrence after `a`
Advance(a, repeat) ==
    IF repeat = "daily" THEN AddDays(a, 1)
    ELSE IF repeat = "weekly" THEN AddDays(a, 7)
    ELSE AddMonth(a)

\* a due_date string: an ISO datetime or a string fromisoformat rejects
DueAt(a) == [ok |-> TRUE, at |-> a]
DueGarbage == [ok |-> FALSE, at |-> Date(1, 1, 1, 0)]

\* the item itself, as an element of the returned list
Plain(item) ==
    [id |-> <<item.id, 0>>, due |-> item.due, repeat |-> item.repeat,
     recurring |-> FALSE, original |-> item.id]

\* instance = item.copy() with due_date, id ("<id>_recur_<n>" from the second
\* on), is_recurring_instance and original_id set
Instance(item, at, count) ==
    [id |-> <<item.id, count>>, due |-> DueAt(at), repeat |-> item.repeat,
     recurring |-> count > 0, original |-> item.id]

\* the values current_date takes in the first n iterations of the loop, were
\* none of them past end_date: `a`, then each the one before advanced
RECURSIVE Currents(_, _, _)
Currents(a, repeat, n) ==
    IF n = 1 THEN <<a>>
    ELSE LET first == Currents(a, repeat, n \div 2)
         IN first \o Currents(Advance(first[n \div 2], repeat), repeat, n - n \div 2)

\* a loop whose limit counts the instances appended, not the iterations
CountAppended(item, start, end) ==
    LET n == IF item.repeat \in Repeats THEN 5 * MaxInstances ELSE 1
        dates == Currents(item.due.at, item.repeat, n)
        iterations == [k \in 1 .. n |-> [count |-> k - 1, at |-> dates[k]]]
        InWindowOf(i) == DateLeq(start, i.at) /\ DateLeq(i.at, end)
        appended == SelectSeq(iterations, InWindowOf)
        kept == IF Len(appended) < MaxInstances THEN Len(appended) ELSE MaxInstances
    IN [k \in 1 .. kept |-> Instance(item, appended[k].at, appended[k].count)]

\* a loop that appends in every iteration, whatever start_date
FromDueDate(item, start, end) ==
    LET n == IF item.repeat \in Repeats THEN MaxInstances ELSE 1
        dates == Currents(item.due.at, item.repeat, n)
        iterations == [k \in 1 .. n |-> [count |-> k - 1, at |-> dates[k]]]
        Reached(i) == \A k \in 1 .. i.count + 1 : DateLeq(dates[k], end)
        appended == SelectSeq(iterations, Reached)
    IN [k \in 1 .. Len(appended) |-> Instance(item, appended[k].at, appended[k].count)]

\* while current_date <= end_date and instance_count < max_instances: the
\* loop runs while the dates are not past end_date, at most max_instances
\* times (once when repeat_interval is none the loop knows: break), and
\* appends an instance in every iteration whose date is not before start_date
Instances(item, start, end) ==
    LET n == IF item.repeat \in Repeats THEN MaxInstances ELSE 1
        dates == Currents(item.due.at, item.repeat, n)
        iterations == [k \in 1 .. n |-> [count |-> k - 1, at |-> dates[k]]]
        Reached(i) == \A k \in 1 .. i.count + 1 : DateLeq(dates[k], end)
        Appends(i) == Reached(i) /\ DateLeq(start, i.at)
        appended == SelectSeq(iterations, Appends)
    IN [k \in 1 .. Len(appended) |-> Instance(item, appended[k].at, appended[k].count)]

\* generate_recurring_instances(item, start_date, end_date), on naive datetimes
generate_recurring_instances(item, start, end) ==
    IF item.repeat = "none" THEN <<Plain(item)>>
    ELSE IF ~item.due.ok THEN <<Plain(item)>>
    ELSE Instances(item, start, end)

\* the arguments of the calls: due dates at a month's end (in a leap year, in
\* a common year, at a year's end), every repeat_interval of the table and one
\* that is none of them, and windows before, around and after the due dates
Morning == 9 * 60

ExpandDues ==
    {DueAt(Date(2025, 1, 31, Morning)), DueAt(Date(2025, 4, 30, Morning)),
     DueAt(Date(2024, 1, 31, Morning)), DueAt(Date(2025, 12, 31, Morning)), DueGarbage}

ExpandRepeats == {"none"} \cup Repeats \cup {"yearly"}

WindowStarts ==
    {Date(2024, 1, 1, 0), Date(2025, 1, 1, 0), Date(2025, 3, 1, 0), Date(2025, 6, 1, 0)}

WindowEnds ==
    {Date(2025, 1, 15, 0), Date(2025, 4, 1, 0), Date(2025, 7, 1, 0), Date(2026, 3, 1, 0)}

\* GET /api/events?start=..&end=..: a call on an item
Expand ==
    /\ ~call.valid
    /\ \E due \in ExpandDues, repeat \in ExpandRepeats, start \in WindowStarts, end \in WindowEnds :
          LET item == [id |-> 1, due |-> due, repeat |-> repeat]
          IN call' = [valid |-> TRUE, item |-> item, start |-> start, end |-> end,
                      out |-> generate_recurring_instances(item, start, end)]
    /\ UNCHANGED <<db, nextId, clock, botReady, running, jobs, queued, pass, last, newest, log,
                   updates, ops>>

NextExpand == Expand

\* the calls of generate_recurring_instances, a function of its arguments alone
SpecExpand == Init /\ [][NextExpand]_vars

\* ----------------------------------------------------- send_daily_update
\* date.toordinal(): the number of the day of `a`, counted from 0001-01-01
DaysBeforeMonth == <<0, 31, 59, 90, 120, 151, 181, 212, 243, 273, 304, 334>>

DayNumber(a) ==
    365 * (a.y - 1) + (a.y - 1) \div 4 - (a.y - 1) \div 100 + (a.y - 1) \div 400
    + DaysBeforeMonth[a.m]
    + (IF a.m > 2 /\ ((a.y % 4 = 0 /\ a.y % 100 # 0) \/ a.y % 400 = 0) THEN 1 ELSE 0)
    + a.d

\* a row as fetch_items() returns it, with the columns send_daily_update reads
DigestItem(id, type, status, due) ==
    [id |-> id, type |-> type, status |-> status, due |-> due]

\* ORDER BY due_date ASC: ISO strings in the order of their datetimes, a text
\* that is no date after them
DigestKey(i) == IF i.due.ok THEN <<0, DateKey(i.due.at)>> ELSE <<1, 0>>

DigestBefore(a, b) ==
    \/ DigestKey(a)[1] < DigestKey(b)[1]
    \/ DigestKey(a)[1] = DigestKey(b)[1] /\ DigestKey(a)[2] < DigestKey(b)[2]
    \/ DigestKey(a) = DigestKey(b) /\ a.id < b.id

RECURSIVE FetchItems(_)
FetchItems(S) ==
    IF S = {} THEN <<>>
    ELSE LET m == CHOOSE x \in S : \A y \in S \ {x} : DigestBefore(x, y)
         IN <<m>> \o FetchItems(S \ {m})

\* [item for item in items if item['type'] == type and item['status'] == 'pending']
PendingOf(items, type) ==
    SelectSeq(items, LAMBDA i : i.type = type /\ i.status = "pending")

\* (due_date.date() - today.date()).days
DaysAhead(item, today) == DayNumber(item.due.at) - DayNumber(today)

\* if due_date.date() < today.date(): the overdue list
InOverdue(item, today) == item.due.ok /\ DaysAhead(item, today) < 0

\* the day's items whose time has not passed
StillAhead(item, today) ==
    item.due.ok /\ DaysAhead(item, today) = 0 /\ item.due.at.hm >= today.hm

\* elif due_date.date() == today.date(): the today list
InToday(item, today) ==
    item.due.ok /\ ~(DaysAhead(item, today) < 0) /\ DaysAhead(item, today) = 0

\* the last test alone, without the two before it
WithinWeek(item, today) == ~item.due.ok \/ DaysAhead(item, today) <= 7

\* the third branch without the except clause
ParsedUpcoming(item, today) ==
    item.due.ok /\ DaysAhead(item, today) > 0 /\ DaysAhead(item, today) <= 7

\* elif (due_date.date() - today.date()).days <= 7, and except: the
\* upcoming list
InUpcoming(item, today) ==
    \/ ~item.due.ok
    \/ /\ ~(DaysAhead(item, today) < 0)
       /\ ~(DaysAhead(item, today) = 0)
       /\ DaysAhead(item, today) <= 7

\* the six lists the two loops fill
Lists(items, today) ==
    LET tasks == PendingOf(items, "task")
        events == PendingOf(items, "event")
    IN [pending_tasks |-> tasks,
        pending_events |-> events,
        overdue_tasks |-> SelectSeq(tasks, LAMBDA i : InOverdue(i, today)),
        today_tasks |-> SelectSeq(tasks, LAMBDA i : InToday(i, today)),
        upcoming_tasks |-> SelectSeq(tasks, LAMBDA i : InUpcoming(i, today)),
        overdue_events |-> SelectSeq(events, LAMBDA i : InOverdue(i, today)),
        today_events |-> SelectSeq(events, LAMBDA i : InToday(i, today)),
        upcoming_events |-> SelectSeq(events, LAMBDA i : InUpcoming(i, today))]

\* list[:5]
ShownPerList == 5
FirstFive(list) == SubSeq(list, 1, IF Len(list) < ShownPerList THEN Len(list) ELSE ShownPerList)

\* text[:1024] of a text of lines: the lines that are in it, whole or in
\* part, every line of the names and priorities of the rows being
\* LineLength characters long
FieldLimit == 1024
LineLength == 70

Cut(lines) ==
    LET whole == (FieldLimit + LineLength - 1) \div LineLength
    IN SubSeq(lines, 1, IF Len(lines) < whole THEN Len(lines) ELSE whole)

\* the field of a pair of lists: a line per item of the first five tasks,
\* then of the first five events, and no field when there is no line
Field(name, tasks, events) ==
    LET lines == [k \in 1 .. Len(FirstFive(tasks) \o FirstFive(events)) |->
                     (FirstFive(tasks) \o FirstFive(events))[k].id]
    IN IF lines = <<>> THEN <<>> ELSE <<[name |-> name, lines |-> Cut(lines)]>>

\* the embed: the fields of the lists, then the Summary field
Embed(l) ==
    [fields |-> Field("OVERDUE", l.overdue_tasks, l.overdue_events)
                \o Field("DUE TODAY", l.today_tasks, l.today_events)
                \o Field("UPCOMING", l.upcoming_tasks, l.upcoming_events),
     total_pending |-> Len(l.pending_tasks) + Len(l.pending_events),
     total_overdue |-> Len(l.overdue_tasks) + Len(l.overdue_events),
     due_today |-> Len(l.today_tasks) + Len(l.today_events)]

\* the table at the time of the update: up to CrowdSize rows of one type due
\* at one date, a row of any type, status and date, and the four rows due
\* on the day before, on the day, five days and three weeks later
CrowdSize == 6

DigestToday == Date(2025, 9, 10, DigestHour * 60 + DigestMinute)

CrowdDues ==
    {DueAt(Date(2025, 9, 9, Morning)), DueAt(Date(2025, 9, 10, Morning)),
     DueAt(Date(2025, 9, 15, Morning))}

DigestDues ==
    CrowdDues \cup
    {DueAt(Date(2025, 8, 31, Morning)), DueAt(Date(2025, 9, 10, 7 * 60)),
     DueAt(Date(2025, 9, 11, 0)), DueAt(Date(2025, 9, 17, Morning)),
     DueAt(Date(2025, 9, 18, 0)), DueAt(Date(2025, 10, 1, Morning)), DueGarbage}

Statuses == {"pending", "completed"}

Crowd(n, type, due) == {DigestItem(k, type, "pending", due) : k \in 1 .. n}

FourRows ==
    {DigestItem(CrowdSize + 2, "task", "pending", DueAt(Date(2025, 9, 9, Morning))),
     DigestItem(CrowdSize + 3, "event", "pending", DueAt(Date(2025, 9, 10, Morning))),
     DigestItem(CrowdSize + 4, "task", "pending", DueAt(Date(2025, 9, 15, Morning))),
     DigestItem(CrowdSize + 5, "event", "pending", DueAt(Date(2025, 10, 1, Morning)))}

\* send_daily_update() with the bot ready: the lists and the embed it builds
\* from the table
send_daily_update ==
    /\ ~call.valid
    /\ \E n \in 0 .. CrowdSize, ct \in Types, cd \in CrowdDues,
          type \in Types, status \in Statuses, due \in DigestDues, four \in BOOLEAN :
          LET rows == Crowd(n, ct, cd) \cup {DigestItem(CrowdSize + 1, type, status, due)}
                      \cup (IF four THEN FourRows ELSE {})
              items == FetchItems(rows)
              lists == Lists(items, DigestToday)
          IN call' = [valid |-> TRUE, items |-> items, today |-> DigestToday,
                      lists |-> lists, embed |-> Embed(lists)]
    /\ UNCHANGED <<db, nextId, clock, botReady, running, jobs, queued, pass, last, newest, log,
                   updates, ops>>

NextDigest == send_daily_update

\* the calls of send_daily_update, a function of the table and the date
SpecDigest == Init /\ [][NextDigest]_vars

\* ================================================================= claims
\* the (id, fire time) pairs a pass that read `items` at `now` arms
PlanIds(items, now) ==
    {JobId(ReminderJob(items[k])) : k \in {m \in 1 .. Len(items) : Armable(items[m], now)}}

\* the last two passes ran in a row on the same items at the same time: the
\* second found the job store as the first left it
TwiceInARow ==
    /\ last.valid /\ last.pred.valid
    /\ ~last.pred.failed
    /\ last.items = last.pred.items
    /\ last.now = last.pred.now
    /\ last.existing = last.pred.live

ReadItem(items, id) == items[CHOOSE k \in 1 .. Len(items) : items[k].id = id]

C3_ExactlyTheWindow ==
    last.valid =>
        /\ ~last.failed
        /\ JobIds(last.live) = PlanIds(last.items, last.now)
        /\ \A j \in last.live : j.run = ReadItem(last.items, j.item).due.t - ReminderLeadMinutes

\* thread w's pass returns in this step
Returns(w) ==
    /\ InProgress(pass[w])
    /\ AfterCall(pass[w], jobs).p.pc = "done"
    /\ pass'[w] = IdlePass

\* the job ids a pass found in the store
FoundIds(p) == JobIds(Reminders({p.existing[k] : k \in 1 .. Len(p.existing)}))

\* C4: when a pass returns, no job it found in the store and did not plan
\* again is live.
C4_DroppedJobNotLive ==
    [][\A w \in Workers :
          Returns(w) =>
              \A id \in FoundIds(pass[w]) \ PlanIds(pass[w].items, pass[w].now) :
                  id \notin JobIds(jobs')]_vars

\* C5: every command or request that changes the items submits a pass.
C5_MutationReconciles == [][db' # db => queued' = queued + 1]_vars

\* C6: a reminder is sent only for an item that is pending when the job runs.
C6_OnlyPendingReminded == \A e \in log : e.out = "sent" => e.pend

\* the reminder time of item i has passed with no job for it in the store
Missed(i) ==
    \/ Now(clock).t > i.due.t - ReminderLeadMinutes
    \/ /\ Now(clock).t = i.due.t - ReminderLeadMinutes
       /\ Now(clock).late
       /\ \A j \in Reminders(jobs) : j.item # i.id

\* C7: a pending item created with a due date more than 30 days ahead and
\* never modified has its reminder job run at due - 30 min.
C7_FarItemReminded ==
    \A i \in db :
        (i.fresh /\ i.status = "pending" /\ Missed(i)) =>
            \E e \in log : e.id[2] = i.id /\ e.id[3] = i.due.t - ReminderLeadMinutes

\* C8: from its read of the job store to its end, no other pass changes the
\* reminder jobs under a pass and no job runs.
C8_PassesSerialized == \A w \in Threads : pass[w].alone

\* no call is queued and no pass is running
Quiescent == queued = 0 /\ \A w \in Threads : ~InProgress(pass[w])

\* C9: when every submitted pass has ended, every live reminder job is one
\* the pass that read the items last planned (that pass read no item that
\* makes it raise).
C9_LastWriterWins ==
    (Quiescent /\ \A k \in 1 .. Len(newest.items) : ~Raises(newest.items[k])) =>
        JobIds(Reminders(jobs)) \subseteq PlanIds(newest.items, newest.now)

\* C10: for every (item id, fire time) the reminder is sent at most once.
C10_AtMostOnce ==
    \A e \in log, f \in log : (e.id = f.id /\ e.out = "sent" /\ f.out = "sent") => e = f

\* thread w's pass makes its add_job call in this step
AddStep(w) ==
    /\ pass[w].pc = "arm"
    /\ pass'[w].pc # "arm" \/ pass'[w].armed # pass[w].armed

\* C11: no pass ever calls add_job for a job_id that is in the job store.
C11_NoSchedulingConflict ==
    [][\A w \in Threads :
          AddStep(w) =>
              JobId(ReminderJob(pass[w].items[pass[w].ai])) \notin JobIds(jobs)]_vars

\* thread w's pass makes a remove_job call in this step
RemoveStep(w) ==
    /\ pass[w].pc = "cancel"
    /\ pass'[w].pc # "cancel" \/ pass'[w].ri # pass[w].ri

\* the job that call names is not in the job store: it ran, or another pass
\* removed it, after this pass read the store
TargetGone(w) ==
    JobId(CancelTargets(pass[w].existing)[pass[w].ri]) \notin JobIds(jobs)

\* after that call the pass has nothing left to remove or to arm
NothingLeft(p) ==
    /\ p.ri = Len(CancelTargets(p.existing))
    /\ \A k \in 1 .. Len(p.items) : ~Armable(p.items[k], p.now)

\* C12: a remove_job call on a job that is gone raises nothing: the pass goes
\* on to its next removal or to arming its planned jobs (no item it read makes
\* it raise).
C12_CancelMissingIsNoop ==
    [][\A w \in Workers :
          (/\ RemoveStep(w)
           /\ TargetGone(w)
           /\ \A k \in 1 .. Len(pass[w].items) : ~Raises(pass[w].items[k]))
          => (pass'[w].pc \in {"cancel", "arm"} \/ NothingLeft(pass[w]))]_vars

\* the scheduler runs reminder job j in this step
FireStep(j) ==
    /\ j \in jobs
    /\ IsReminder(j)
    /\ \E e \in log' \ log : e.id = JobId(j)

ReminderFails(j) == \E e \in log' \ log : e.id = JobId(j) /\ e.out = "failed"

DigestFails == \E u \in updates' \ updates : u.out = "failed"

\* C14: an error raised while a reminder or the digest is delivered is caught:
\* the scheduler keeps running, every other job stays in the store (the
\* daily_update job too, also when it is the digest that failed), and from then
\* on no live reminder job is left behind by the clock.
C14_DeliveryErrorCaught ==
    /\ [][/\ \A j \in jobs : ReminderFails(j) => running' /\ jobs' = jobs \ {j}
          /\ DigestFails => running' /\ jobs' = jobs]_vars
    /\ []((\E e \in log : e.out = "failed") \/ (\E u \in updates : u.out = "failed")
            => /\ running
               /\ DailyJob \in jobs
               /\ \A j \in Reminders(jobs) : j.run >= Now(clock).t)

\* a reminder failed, and at a later instant another reminder was sent and
\* the digest ran; and a digest failed, and later a reminder was sent
C14_OthersStillFired ==
    /\ \E e \in log, f \in log, u \in updates :
          e.out = "failed" /\ f.out = "sent" /\ f.id[3] > e.id[3] /\ u.t > e.id[3]
    /\ \E u \in updates, f \in log : u.out = "failed" /\ f.out = "sent" /\ f.id[3] > u.t

\* the daily_update jobs in the store
DigestJobs == {j \in jobs : j.kind = "daily_update"}

\* C15: once a pass has ended (the startup pass returned or raised, and any
\* number of passes and digest runs followed) the store holds exactly one
\* daily_update job, and the digest has run at every digest time the clock
\* has left behind.
C15_OneDigestJob ==
    (running \/ pass[Main].pc = "failed") =>
        /\ Cardinality(DigestJobs) = 1
        /\ \A k \in 1 .. LastInstant :
              (IsDigestTime(InstantAt(k)) /\ Now(clock).t > InstantAt(k)) =>
                  \E u \in updates : u.t = InstantAt(k)

\* the same of the states in which the scheduler runs
C15_WhileRunning ==
    running =>
        /\ Cardinality(DigestJobs) = 1
        /\ \A k \in 1 .. LastInstant :
              (IsDigestTime(InstantAt(k)) /\ Now(clock).t > InstantAt(k)) =>
                  \E u \in updates : u.t = InstantAt(k)

\* C16: for repeat = none the call returns exactly one occurrence, the item's
\* own due date, when the window contains the due date, and none when the
\* window excludes it.
C16_NoneOnlyInWindow ==
    (call.valid /\ call.item.repeat = "none" /\ call.item.due.ok) =>
        IF DateLeq(call.start, call.item.due.at) /\ DateLeq(call.item.due.at, call.end)
        THEN Len(call.out) = 1 /\ call.out[1].due = call.item.due
        ELSE call.out = <<>>

\* the date k whole calendar months after `a`: the day of `a`, or the target
\* month's last day when that month is shorter
MonthsAfter(a, k) ==
    LET months == a.y * 12 + (a.m - 1) + k
        y == months \div 12
        m == (months % 12) + 1
    IN [a EXCEPT !.y = y, !.m = m,
                 !.d = IF a.d > DaysInMonth(y, m) THEN DaysInMonth(y, m) ELSE a.d]

\* C17: for repeat = monthly every occurrence is the original due date
\* advanced by whole calendar months, the day clamped to the target month and
\* not carried over from a shorter month (2025-01-31 gives 01-31, 02-28, 03-31).
C17_MonthlyFromOriginal ==
    (call.valid /\ call.item.repeat = "monthly" /\ call.item.due.ok) =>
        \A k \in 1 .. Len(call.out) :
            call.out[k].due.at = MonthsAfter(call.item.due.at, call.out[k].id[2])

\* b is a.hm on the day n days after a
DaysApart(a, b, n) == DayNumber(b) - DayNumber(a) = n /\ b.hm = a.hm

\* b is one calendar month after a: in the month that follows a's, on a's
\* day or on that month's last day when it is shorter
MonthApart(a, b) ==
    /\ b.y * 12 + b.m = a.y * 12 + a.m + 1
    /\ b.d = (IF a.d > DaysInMonth(b.y, b.m) THEN DaysInMonth(b.y, b.m) ELSE a.d)
    /\ b.hm = a.hm

\* C18: for repeat = daily, weekly or monthly every two consecutive
\* occurrences the call returns are exactly one day, seven days or one calendar
\* month apart, the month's end normalized without running into the month after.
C18_ConsecutiveOnePeriod ==
    (call.valid /\ call.item.repeat \in {"daily", "weekly", "monthly"} /\ call.item.due.ok) =>
        \A k \in 1 .. Len(call.out) - 1 :
            LET a == call.out[k].due.at
                b == call.out[k + 1].due.at
            IN /\ call.item.repeat = "daily" => DaysApart(a, b, 1)
               /\ call.item.repeat = "weekly" => DaysApart(a, b, 7)
               /\ call.item.repeat = "monthly" => MonthApart(a, b)

\* a monthly call returned 2025-01-31 followed by 2025-02-28
C18_JanuaryToFebruary ==
    /\ call.valid /\ call.item.repeat = "monthly"
    /\ \E k \in 1 .. Len(call.out) - 1 :
          /\ call.out[k].due.at = Date(2025, 1, 31, 9 * 60)
          /\ call.out[k + 1].due.at = Date(2025, 2, 28, 9 * 60)

\* C19: every call returns, and returns at most 100 occurrences, whatever the
\* item, its repeat value and the window.
C19_AtMostHundred == call.valid => Len(call.out) <= 100

\* a call returned 100 occurrences although the window reaches more than one
\* period past the last of them
C19_LimitReached ==
    /\ call.valid /\ call.item.repeat = "daily"
    /\ Len(call.out) = 100
    /\ DayNumber(call.end) - DayNumber(call.out[100].due.at) > 1

\* C20: the occurrences a call returns are strictly increasing in time, and
\* the first of them is the item's own due date, also when the window starts
\* after the due date.
C20_FirstIsDueDate ==
    (call.valid /\ call.out # <<>>) =>
        /\ call.out[1].due = call.item.due
        /\ \A k \in 1 .. Len(call.out) - 1 :
              DayNumber(call.out[k].due.at) < DayNumber(call.out[k + 1].due.at)

\* the same without the first occurrence: strictly increasing in time
C20_StrictlyIncreasing ==
    call.valid =>
        \A k \in 1 .. Len(call.out) - 1 :
            DayNumber(call.out[k].due.at) < DayNumber(call.out[k + 1].due.at)


\* the number of times an item is in a list
Times(item, list) == Cardinality({k \in 1 .. Len(list) : list[k] = item})

\* the urgency buckets of the digest: the lists of tasks and of events of
\* the same urgency together
OverdueBucket == call.lists.overdue_tasks \o call.lists.overdue_events
TodayBucket == call.lists.today_tasks \o call.lists.today_events
UpcomingBucket == call.lists.upcoming_tasks \o call.lists.upcoming_events

\* the pending items read from the table
PendingItems == SelectSeq(call.items, LAMBDA i : i.status = "pending")

\* the rest: the pending items the loops append to none of their lists
OtherBucket ==
    SelectSeq(PendingItems,
              LAMBDA i : Times(i, OverdueBucket \o TodayBucket \o UpcomingBucket) = 0)

Buckets == <<OverdueBucket, TodayBucket, UpcomingBucket, OtherBucket>>

BucketsOf(i) == {b \in 1 .. 4 : Times(i, Buckets[b]) > 0}

\* C21: the buckets of the digest (overdue, due today, upcoming, and the
\* rest) partition the pending items: every pending item of the table,
\* whatever its due date, is in exactly one of them, exactly once, and an
\* item that is not pending is in none
C21_ExactlyOneBucket ==
    call.valid =>
        \A k \in 1 .. Len(call.items) :
            LET i == call.items[k]
            IN IF i.status = "pending"
               THEN /\ Cardinality(BucketsOf(i)) = 1
                    /\ \A b \in BucketsOf(i) : Times(i, Buckets[b]) = 1
               ELSE BucketsOf(i) = {}

\* a digest in which each of the four buckets holds an item, one of them an
\* item whose due date does not parse
C21_AllFourBuckets ==
    /\ call.valid
    /\ \A b \in 1 .. 4 : Buckets[b] # <<>>
    /\ \E k \in 1 .. Len(PendingItems) : ~PendingItems[k].due.ok

\* C22 (as the code has it): a pending item whose due date does not parse is
\* put in the upcoming bucket, once, and in no other bucket: it is never
\* dropped
C22_UnparseableIsUpcoming ==
    call.valid =>
        \A k \in 1 .. Len(PendingItems) :
            ~PendingItems[k].due.ok =>
                /\ Times(PendingItems[k], UpcomingBucket) = 1
                /\ BucketsOf(PendingItems[k]) = {3}

\* C22 (as the specification has it): a pending item whose due date does not
\* parse is in the rest, not in overdue, due today or upcoming
C22_UnparseableIsOther ==
    call.valid =>
        \A k \in 1 .. Len(PendingItems) :
            ~PendingItems[k].due.ok => BucketsOf(PendingItems[k]) = {4}

\* a digest of a table with a pending item whose due date does not parse
C22_UnparseableRead ==
    /\ call.valid
    /\ \E k \in 1 .. Len(PendingItems) :
          ~PendingItems[k].due.ok /\ Times(PendingItems[k], UpcomingBucket) = 1

\* the days from the day of the digest to the day of a due date
DaysFromToday(i) == DayNumber(i.due.at) - DayNumber(call.today)

\* C23: the bucket of a pending item with a due date depends on the calendar
\* dates only: overdue iff the due day is before today, due today iff it is
\* today (whatever the times of day), upcoming iff it is 1 to 7 days ahead,
\* the rest iff it is 8 or more days ahead; on 2025-09-10 the items due
\* 09-09, 09-10, 09-15 and 10-01 are overdue, due today, upcoming and the rest
C23_CalendarDatesDecide ==
    call.valid =>
        /\ \A k \in 1 .. Len(PendingItems) :
              LET i == PendingItems[k]
              IN i.due.ok =>
                    /\ Times(i, OverdueBucket) > 0 <=> DaysFromToday(i) < 0
                    /\ Times(i, TodayBucket) > 0 <=> DaysFromToday(i) = 0
                    /\ Times(i, UpcomingBucket) > 0 <=> DaysFromToday(i) \in 1 .. 7
                    /\ Times(i, OtherBucket) > 0 <=> DaysFromToday(i) >= 8
        /\ \A k \in 1 .. Len(PendingItems) :
              LET i == PendingItems[k]
              IN /\ i.due = DueAt(Date(2025, 9, 9, Morning)) => BucketsOf(i) = {1}
                 /\ i.due = DueAt(Date(2025, 9, 10, Morning)) => BucketsOf(i) = {2}
                 /\ i.due = DueAt(Date(2025, 9, 15, Morning)) => BucketsOf(i) = {3}
                 /\ i.due = DueAt(Date(2025, 10, 1, Morning)) => BucketsOf(i) = {4}

\* the digest of 2025-09-10 08:00 on the four items of the example and an
\* item that was due at 07:00 of the day
C23_FourDatesAndPassedTime ==
    /\ call.valid
    /\ call.today = Date(2025, 9, 10, 8 * 60)
    /\ \A d \in {Date(2025, 9, 9, Morning), Date(2025, 9, 10, Morning),
                  Date(2025, 9, 15, Morning), Date(2025, 10, 1, Morning)} :
          \E k \in 1 .. Len(PendingItems) : PendingItems[k].due = DueAt(d)
    /\ \E k \in 1 .. Len(TodayBucket) : TodayBucket[k].due = DueAt(Date(2025, 9, 10, 7 * 60))

\* the items of a bucket the embed shows: the lines of the bucket's field
ShownOf(name) ==
    IF \E k \in 1 .. Len(call.embed.fields) : call.embed.fields[k].name = name
    THEN (CHOOSE f \in {call.embed.fields[k] : k \in 1 .. Len(call.embed.fields)} :
              f.name = name).lines
    ELSE <<>>

\* C24: the digest shows at most 5 items of each bucket, tasks and events
\* together, and its summary counts (total pending, overdue, due today) are
\* the sizes of the untruncated buckets
C24_AtMostFiveShown ==
    call.valid =>
        /\ \A name \in {"OVERDUE", "DUE TODAY", "UPCOMING"} : Len(ShownOf(name)) <= 5
        /\ call.embed.total_pending = Len(PendingItems)
        /\ call.embed.total_overdue = Len(OverdueBucket)
        /\ call.embed.due_today = Len(TodayBucket)

\* an item with a bad due date: one that does not parse (the empty string
\* among them), or one so early that due - 30 min is below datetime.min
BadDue(i) == i.status = "pending" /\ (~i.due.ok \/ Overflows(i))

\* C25: a pass that reads an item with a bad due date does not abort: it
\* ends with a reminder job for every other item that is eligible and with
\* the daily_update job in the store
C25_BadItemContained ==
    [][(last' # last /\ \E k \in 1 .. Len(last'.items) : BadDue(last'.items[k]))
          => /\ ~last'.failed
             /\ PlanIds(last'.items, last'.now) \subseteq JobIds(last'.live)
             /\ DailyJob \in jobs']_vars

\* C26: within one pass every removal of an existing reminder job comes
\* before any add_job: the pass has armed nothing when it calls remove_job,
\* and has gone through every reminder job it found when it calls add_job
C26_CancelBeforeArm ==
    [][\A w \in Threads :
          /\ RemoveStep(w) => pass[w].armed = 0
          /\ AddStep(w) => pass[w].ri > Len(CancelTargets(pass[w].existing))]_vars

\* a pass that removed a job, armed a job and is about to arm another
C26_CancelledThenArming ==
    \E w \in Threads :
        pass[w].pc = "arm" /\ pass[w].cancelled > 0 /\ pass[w].armed > 0

\* the call is on an item that repeats and has a due date
RecurringCall == call.valid /\ call.item.repeat \in Repeats /\ call.item.due.ok

\* the dates of the steps from the due date on, a period apart, the first
\* MaxInstances of them
StepDates == Currents(call.item.due.at, call.item.repeat, MaxInstances)

\* the steps (counted from 0) of the returned occurrences
ReturnedSteps == {call.out[k].id[2] : k \in 1 .. Len(call.out)}

\* C27: every occurrence returned for a recurring item lies in the window,
\* start <= date <= end; the steps before the window's start are skipped and
\* the stepping goes on, and it stops at the first step past the window's
\* end: the occurrences are the steps in the window, each at its step's date
C27_OccurrencesInWindow ==
    RecurringCall =>
        /\ \A k \in 1 .. Len(call.out) :
              /\ DateLeq(call.start, call.out[k].due.at)
              /\ DateLeq(call.out[k].due.at, call.end)
              /\ call.out[k].due.at = StepDates[call.out[k].id[2] + 1]
        /\ ReturnedSteps =
              {n \in 0 .. MaxInstances - 1 :
                  DateLeq(call.start, StepDates[n + 1]) /\ DateLeq(StepDates[n + 1], call.end)}

\* a call whose first steps are before the window's start, that returns
\* occurrences and stops at the window's end, before the limit of steps
C27_SkippedThenStopped ==
    /\ RecurringCall
    /\ ~DateLeq(call.start, call.item.due.at)
    /\ call.out # <<>>
    /\ call.out[1].id[2] > 0
    /\ call.out[Len(call.out)].id[2] < MaxInstances - 1
    /\ ~DateLeq(StepDates[call.out[Len(call.out)].id[2] + 2], call.end)

\* the number of steps from the due date that fall before the window's
\* start, of the first MaxInstances: the periods the due date lies before it
StepsBeforeStart ==
    Cardinality({n \in 0 .. MaxInstances - 1 : ~DateLeq(call.start, StepDates[n + 1])})

\* C28: the limit of 100 counts the steps from the due date, not the
\* occurrences returned: an item whose due date lies 100 or more periods
\* before the window's start yields none, one whose due date lies k < 100
\* periods before it yields at most 100 - k
C28_LimitCountsSteps ==
    RecurringCall =>
        /\ StepsBeforeStart = MaxInstances => call.out = <<>>
        /\ Len(call.out) <= MaxInstances - StepsBeforeStart

\* a call on an item due some periods before the window's start that returns
\* an occurrence for each step left, the window going on past the last
C28_SkippedStepsUseTheLimit ==
    /\ RecurringCall
    /\ StepsBeforeStart > 0
    /\ Len(call.out) = MaxInstances - StepsBeforeStart
    /\ call.out # <<>>
    /\ DateLeq(Advance(StepDates[MaxInstances], call.item.repeat), call.end)

\* the reminder jobs of an item in a job store
JobsOf(id, J) == {j \in Reminders(J) : j.item = id}

\* the reminder time of the item's stored due date has passed
PastDue(i, now) == i.due.ok /\ ~Overflows(i) /\ ~InWindow(now, ReminderTime(i))
                       /\ ReminderTime(i) <= now.t

\* the items the returning pass read
ItemsRead(w) == {pass[w].items[k] : k \in 1 .. Len(pass[w].items)}

\* C29: when a pass returns, the job store holds at most one reminder job
\* per item, and it is the job of the due date stored for the item as the
\* pass read it, 30 minutes before it; an item (repeating or not) whose
\* stored due date is in the past has no reminder job
C29_OneJobPerStoredDueDate ==
    [][\A w \in Threads :
          Returns(w) =>
              /\ \A i \in ItemsRead(w) : Cardinality(JobsOf(i.id, jobs')) <= 1
              /\ \A j \in Reminders(jobs') :
                    \E i \in ItemsRead(w) : i.id = j.item /\ j.run = ReminderTime(i)
              /\ \A i \in ItemsRead(w) :
                    PastDue(i, pass[w].now) => JobsOf(i.id, jobs') = {}]_vars

\* the same of a pass that ran alone and returned: one reminder job per
\* item at most, of the due date the pass read, none for a past due date
C29_WhenAlone ==
    (last.valid /\ ~last.failed) =>
        /\ \A j, k \in last.live : j.item = k.item => j = k
        /\ \A j \in last.live : j.run = ReminderTime(ReadItem(last.items, j.item))
        /\ \A k \in 1 .. Len(last.items) :
              PastDue(last.items[k], last.now) => JobsOf(last.items[k].id, last.live) = {}

\* C30: a reminder job that runs while the bot is not ready sends nothing
\* and leaves the job store in that step, and its message is never sent
\* later, the bot being ready or not: no later run of a job of that job_id
\* sends it, and on_ready sends nothing and arms nothing
C30_SkippedIsNeverDelivered ==
    /\ [][(\A j \in jobs :
               (FireStep(j) /\ ~botReady) =>
                   /\ JobId(j) \notin JobIds(jobs')
                   /\ \A e \in log' \ log : e.out = "skipped")
           /\ (botReady' # botReady => (log' = log /\ jobs' = jobs))]_vars
    /\ [](\A e, f \in log :
             (e.out = "skipped" /\ f.id = e.id /\ f.n > e.n) => f.out # "sent")

\* the steps alone: a reminder job that runs while the bot is not ready
\* sends nothing and leaves the job store, and on_ready sends nothing and
\* arms nothing
C30_NothingOnReady ==
    [][(\A j \in jobs :
           (FireStep(j) /\ ~botReady) =>
               /\ JobId(j) \notin JobIds(jobs')
               /\ \A e \in log' \ log : e.out = "skipped")
       /\ (botReady' # botReady => (log' = log /\ jobs' = jobs))]_vars

====
